---- MODULE Spec2Model ----
(***************************************************************************)
(* Model of the metrics aggregation, portfolio allocation and prediction   *)
(* code of Flable.ai:                                                      *)
(*   - BudgetOptimizer.optimize_portfolio  (src/ml-engine/campaign_optimizer.py) *)
(*   - CampaignOptimizer training, prediction, save and load (same file)   *)
(*   - query_analytics, get_campaign_trends, compare_campaigns             *)
(*                                          (src/backend/api/routes/analytics.py) *)
(*                                                                         *)
(* Python numbers are modelled as exact rationals <<n, d>> in lowest terms *)
(* with d > 0.  Binary floating-point representation error is not          *)
(* modelled: 0.7 is 7/10, and round(x, 2) rounds the exact value           *)
(* half-to-even.                                                           *)
(***************************************************************************)
EXTENDS Integers, Sequences, FiniteSets, TLC

VARIABLES
  campaigns,        \* the list the caller passes to optimize_portfolio
  total_budget,     \* the total_budget it passes
  campaign_scores,  \* the call's local campaign_scores list when the call ends
  alloc,            \* how the call ended and the dict it returned
  store,            \* the rows of the campaign_analytics table, in table order
  request,          \* the parameters of the latest query_analytics request
  analytics_data,   \* that request's local analytics_data list
  response,         \* the AnalyticsResponse it returned
  trend_request,    \* the parameters of the latest get_campaign_trends request
  trends,           \* what that request returned or raised
  compare_request,  \* the parameters of the latest compare_campaigns request
  comparison,       \* what that request returned or raised
  overview_request, \* the parameters of the latest get_analytics_overview request
  overview,         \* what that request returned
  roas_model,       \* CampaignOptimizer.roas_model
  conversion_model, \* CampaignOptimizer.conversion_model
  scaler,           \* CampaignOptimizer.scaler
  training,         \* per thread: where it is inside a train_*_model call
  result,           \* what the latest finished CampaignOptimizer call returned or raised
  campaign_data,    \* the dict a caller builds for generate_recommendations
  recommendations,  \* the list the call returned
  clock,            \* datetime.utcnow(), in ticks
  is_active,        \* users table: id -> is_active
  issued,           \* the tokens signed with SECRET_KEY so far
  auth_request,     \* the latest request to login, refresh or a protected route
  auth_response     \* how it was answered

allocVars == <<campaigns, total_budget, campaign_scores, alloc>>
analyticsVars == <<store, request, analytics_data, response>>
reportVars == <<trend_request, trends, compare_request, comparison, overview_request, overview>>
modelVars == <<roas_model, conversion_model, scaler>>
predictorVars == <<modelVars, training, result>>
adviceVars == <<campaign_data, recommendations>>
authVars == <<clock, is_active, issued, auth_request, auth_response>>
vars == <<allocVars, analyticsVars, reportVars, predictorVars, adviceVars, authVars>>

----------------------------------------------------------------------------
(* Exact rational arithmetic standing for Python's int/float arithmetic.   *)

Abs(n) == IF n < 0 THEN -n ELSE n

RECURSIVE Gcd(_, _)
Gcd(a, b) == IF b = 0 THEN a ELSE Gcd(b, a % b)

\* n/d in lowest terms, d > 0 (d # 0 is the caller's obligation).
Rat(n, d) ==
  LET s == IF d < 0 THEN -1 ELSE 1
      g == Gcd(Abs(n), Abs(d))
  IN  <<(s * n) \div g, (s * d) \div g>>

Num(x) == x[1]
Den(x) == x[2]
Whole(n) == <<n, 1>>
Zero == Whole(0)

RAdd(x, y) == Rat(Num(x) * Den(y) + Num(y) * Den(x), Den(x) * Den(y))
RMul(x, y) == Rat(Num(x) * Num(y), Den(x) * Den(y))
\* x / y; Python raises ZeroDivisionError when y = 0, so callers guard it.
RDiv(x, y) == Rat(Num(x) * Den(y), Den(x) * Num(y))
RLt(x, y) == Num(x) * Den(y) < Num(y) * Den(x)
RLe(x, y) == Num(x) * Den(y) <= Num(y) * Den(x)
RMax(x, y) == IF RLt(x, y) THEN y ELSE x
RMin(x, y) == IF RLt(y, x) THEN y ELSE x

\* Python's round(x, 2): nearest multiple of 1/100, ties to the even one.
Round2(x) ==
  LET n == Num(x) * 100
      d == Den(x)
      q == n \div d
      r == n - q * d
      up == \/ 2 * r > d
            \/ 2 * r = d /\ q % 2 = 1
  IN  Rat(IF up THEN q + 1 ELSE q, 100)

\* every reordering of a sequence
Perms(s) ==
  LET n == Len(s)
      Bij == {f \in [1..n -> 1..n] : \A i, j \in 1..n : f[i] = f[j] => i = j}
  IN  {[i \in 1..n |-> s[f[i]]] : f \in Bij}

----------------------------------------------------------------------------
(* BudgetOptimizer.optimize_portfolio                                      *)

\* dict.get(key, default)
Get(c, k, default) == IF k \in DOMAIN c THEN c[k] ELSE default

\* line 236 divides by cost: a campaign whose cost is 0 raises
\* ZeroDivisionError before anything is returned.
RaisesZeroDivision(cs) ==
  \E i \in 1..Len(cs) : Num(Get(cs[i], "cost", Whole(1))) = 0

\* lines 231-236: (roas * 0.7) + (conversions / cost * 0.3)
Efficiency(c) ==
  LET roas == Get(c, "roas", Zero)
      conversions == Get(c, "conversions", Zero)
      cost == Get(c, "cost", Whole(1))
  IN  RAdd(RMul(roas, Rat(7, 10)), RMul(RDiv(conversions, cost), Rat(3, 10)))

\* lines 237-242: one score entry per input campaign, in input order
ScoreEntry(c) ==
  [campaign_id |-> c["id"],
   efficiency  |-> Efficiency(c),
   min_budget  |-> Get(c, "min_budget", Whole(10)),
   max_budget  |-> Get(c, "max_budget", Whole(1000))]

CampaignScores(cs) == [i \in 1..Len(cs) |-> ScoreEntry(cs[i])]

\* the sort of line 245 left out: the entries stay in input order
SortByEfficiencyOmitted(s) == s

\* a descending sort that puts an entry before the earlier entries it ties with
RECURSIVE InsertDescBeforeTies(_, _)
InsertDescBeforeTies(e, s) ==
  IF s = <<>> THEN <<e>>
  ELSE IF RLe(Head(s).efficiency, e.efficiency)
       THEN <<e>> \o s
       ELSE <<Head(s)>> \o InsertDescBeforeTies(e, Tail(s))

RECURSIVE SortByEfficiencyTiesReversed(_)
SortByEfficiencyTiesReversed(s) ==
  IF s = <<>> THEN <<>>
  ELSE InsertDescBeforeTies(s[Len(s)],
                            SortByEfficiencyTiesReversed(SubSeq(s, 1, Len(s) - 1)))

\* line 245: list.sort(key=efficiency, reverse=True) is stable: entries with
\* equal efficiency keep their relative order.  Insertion after the last
\* entry whose efficiency is >= the new one.
RECURSIVE InsertDesc(_, _)
InsertDesc(e, s) ==
  IF s = <<>> THEN <<e>>
  ELSE IF RLt(Head(s).efficiency, e.efficiency)
       THEN <<e>> \o s
       ELSE <<Head(s)>> \o InsertDesc(e, Tail(s))

RECURSIVE SortByEfficiency(_)
SortByEfficiency(s) ==
  IF s = <<>> THEN <<>>
  ELSE InsertDesc(s[Len(s)], SortByEfficiency(SubSeq(s, 1, Len(s) - 1)))

\* the sum of line 248 taken without the first entry
RECURSIVE TotalEfficiencySkippingFirst(_)
TotalEfficiencySkippingFirst(s) ==
  IF Len(s) <= 1 THEN Zero
  ELSE RAdd(TotalEfficiencySkippingFirst(SubSeq(s, 1, Len(s) - 1)), s[Len(s)].efficiency)

\* line 248: sum(c['efficiency'] for c in campaign_scores)
RECURSIVE TotalEfficiency(_)
TotalEfficiency(s) ==
  IF s = <<>> THEN Zero
  ELSE RAdd(TotalEfficiency(SubSeq(s, 1, Len(s) - 1)), s[Len(s)].efficiency)

\* the proportional branch with the min_budget clamp left out
AllocationNoMinClamp(entry, E, budget, n) ==
  IF RLt(Zero, E)
  THEN Round2(RMin(entry.max_budget, RMul(RDiv(entry.efficiency, E), budget)))
  ELSE Round2(RDiv(budget, Whole(n)))

\* lines 252-259: the value written for one score entry
Allocation(entry, E, budget, n) ==
  IF RLt(Zero, E)
  THEN Round2(RMax(entry.min_budget,
                   RMin(entry.max_budget,
                        RMul(RDiv(entry.efficiency, E), budget))))
  ELSE Round2(RDiv(budget, Whole(n)))

\* allocations[k] = v on a dict
Put(m, k, v) == [x \in DOMAIN m \cup {k} |-> IF x = k THEN v ELSE m[x]]

EmptyDict == [x \in {} |-> Zero]

\* the loop with entries of efficiency 0 passed over
RECURSIVE AllocateSkippingUnscored(_, _, _, _)
AllocateSkippingUnscored(s, E, budget, n) ==
  IF s = <<>> THEN EmptyDict
  ELSE LET last == s[Len(s)]
           before == AllocateSkippingUnscored(SubSeq(s, 1, Len(s) - 1), E, budget, n)
       IN  IF Num(last.efficiency) = 0 THEN before
           ELSE Put(before, last.campaign_id, Allocation(last, E, budget, n))

\* lines 249-259: the loop over the sorted entries; a later entry with the
\* same campaign_id overwrites an earlier one.
RECURSIVE Allocate(_, _, _, _)
Allocate(s, E, budget, n) ==
  IF s = <<>> THEN EmptyDict
  ELSE LET last == s[Len(s)]
       IN  Put(Allocate(SubSeq(s, 1, Len(s) - 1), E, budget, n),
               last.campaign_id, Allocation(last, E, budget, n))

\* the keys of the dict in iteration order after the loop of lines 249-259: a
\* dict lists its keys in the order of their first insertion
RECURSIVE KeyOrder(_)
KeyOrder(s) ==
  IF s = <<>> THEN <<>>
  ELSE LET before == KeyOrder(SubSeq(s, 1, Len(s) - 1))
           k == s[Len(s)].campaign_id
       IN  IF \E i \in 1..Len(before) : before[i] = k THEN before ELSE Append(before, k)

\* Index of the first campaign whose cost is 0 (the one line 236 raises on).
FirstZeroCost(cs) ==
  CHOOSE i \in 1..Len(cs) :
    /\ Num(Get(cs[i], "cost", Whole(1))) = 0
    /\ \A j \in 1..(i - 1) : Num(Get(cs[j], "cost", Whole(1))) # 0

\* The whole call: what it raises or the dict it returns, and the local
\* campaign_scores list at that point (sorted in place by line 245; on a
\* raise, the entries appended before the raising campaign).
optimize_portfolio(cs, budget) ==
  IF RaisesZeroDivision(cs)
  THEN [status |-> "ZeroDivisionError",
        allocations |-> EmptyDict,
        key_order |-> <<>>,
        scores |-> CampaignScores(SubSeq(cs, 1, FirstZeroCost(cs) - 1))]
  ELSE LET sorted == SortByEfficiency(CampaignScores(cs))
       IN  [status |-> "returned",
            allocations |-> Allocate(sorted, TotalEfficiency(sorted), budget, Len(cs)),
            key_order |-> KeyOrder(sorted),
            scores |-> sorted]

----------------------------------------------------------------------------
(* Inputs of the allocator                                                 *)

\* Longest campaign list the caller builds.
MaxCampaigns == 2

\* roas / conversions / cost of a snapshot; a key left out is a missing key.
MetricChoices ==
  { [roas |-> Whole(4), conversions |-> Whole(10), cost |-> Whole(100)],
    [roas |-> Whole(1), conversions |-> Whole(2),  cost |-> Whole(50)],
    [roas |-> Whole(0), conversions |-> Whole(0),  cost |-> Whole(0)],
    [roas |-> Whole(0), conversions |-> Whole(0)],
    [roas |-> Whole(0), conversions |-> Whole(1),  cost |-> Rat(1, 2)],
    [roas |-> Whole(-1), conversions |-> Whole(0), cost |-> Whole(1)] }

\* min_budget / max_budget of a snapshot; the empty record leaves both out.
BoundChoices ==
  { [x \in {} |-> Zero],
    [min_budget |-> Whole(200), max_budget |-> Whole(250)] }

CampaignIds == {1, 2}

BudgetChoices == {Whole(0), Whole(5), Whole(300)}

\* record union of records over disjoint keys
Merge(f, g) == [k \in DOMAIN f \cup DOMAIN g |-> IF k \in DOMAIN f THEN f[k] ELSE g[k]]

Snapshots ==
  { Merge([id |-> i], Merge(m, b)) : i \in CampaignIds, m \in MetricChoices, b \in BoundChoices }

NotCalled == [status |-> "not_called", allocations |-> EmptyDict, key_order |-> <<>>]


\* The caller appends one more snapshot to the list it will pass.
AppendCampaign ==
  /\ Len(campaigns) < MaxCampaigns
  /\ \E c \in Snapshots : campaigns' = Append(campaigns, c)
  /\ alloc' = NotCalled
  /\ campaign_scores' = <<>>
  /\ UNCHANGED total_budget

\* budget_optimizer.optimize_portfolio(campaigns, total_budget)
OptimizePortfolio ==
  /\ alloc = NotCalled
  /\ LET r == optimize_portfolio(campaigns, total_budget)
     IN  /\ alloc' = [status |-> r.status, allocations |-> r.allocations,
                       key_order |-> r.key_order]
         /\ campaign_scores' = r.scores
  /\ UNCHANGED <<campaigns, total_budget>>

----------------------------------------------------------------------------
(* query_analytics                                                         *)

\* the campaign_analytics rows of analytics_data, projected on one column
Column(rows, field) == [i \in 1..Len(rows) |-> rows[i][field]]

\* sum() with a start value of 1 instead of 0
RECURSIVE SumStartingAtOne(_)
SumStartingAtOne(xs) ==
  IF xs = <<>> THEN 1
  ELSE SumStartingAtOne(SubSeq(xs, 1, Len(xs) - 1)) + xs[Len(xs)]

\* sum() that leaves out the first element
RECURSIVE SumSkippingFirst(_)
SumSkippingFirst(xs) ==
  IF Len(xs) <= 1 THEN 0
  ELSE SumSkippingFirst(SubSeq(xs, 1, Len(xs) - 1)) + xs[Len(xs)]

\* lines 48-52: sum(a.<field> for a in analytics_data)
RECURSIVE Sum(_)
Sum(xs) ==
  IF xs = <<>> THEN 0
  ELSE Sum(SubSeq(xs, 1, Len(xs) - 1)) + xs[Len(xs)]

\* the guard written as "denominator != 0"
QuotientIfNonZero(numerator, denominator) ==
  IF denominator # 0 THEN RDiv(Whole(numerator), Whole(denominator)) ELSE Zero

\* lines 60-63: (numerator / denominator) if denominator > 0 else 0
QuotientIfPositive(numerator, denominator) ==
  IF denominator > 0 THEN RDiv(Whole(numerator), Whole(denominator)) ELSE Zero

\* the guards written as "denominator >= 0"
DivisorsUsedIfNonNegative(rows) ==
  { d \in { Sum(Column(rows, "impressions")), Sum(Column(rows, "clicks")),
            Sum(Column(rows, "conversions")), Sum(Column(rows, "cost")) } : d >= 0 }

\* lines 60-63: the totals the four conditional expressions divide by, which
\* are those their conditions let through
DivisorsUsed(rows) ==
  { d \in { Sum(Column(rows, "impressions")), Sum(Column(rows, "clicks")),
            Sum(Column(rows, "conversions")), Sum(Column(rows, "cost")) } : d > 0 }

\* Python's / raises ZeroDivisionError on a divisor of 0
SummaryRaises(rows) == 0 \in DivisorsUsed(rows)

\* lines 48-64: the summary dict
Summary(rows) ==
  LET total_impressions == Sum(Column(rows, "impressions"))
      total_clicks      == Sum(Column(rows, "clicks"))
      total_conversions == Sum(Column(rows, "conversions"))
      total_cost        == Sum(Column(rows, "cost"))
      total_revenue     == Sum(Column(rows, "revenue"))
  IN  [total_impressions |-> total_impressions,
       total_clicks      |-> total_clicks,
       total_conversions |-> total_conversions,
       total_cost        |-> total_cost,
       total_revenue     |-> total_revenue,
       average_ctr |-> RMul(QuotientIfPositive(total_clicks, total_impressions), Whole(100)),
       average_cpc |-> QuotientIfPositive(total_cost, total_clicks),
       average_cpa |-> QuotientIfPositive(total_cost, total_conversions),
       total_roas  |-> QuotientIfPositive(total_revenue, total_cost)]

\* lines 67-82: one AnalyticsDataPoint per row (the stored ctr, cpc, cpa and
\* conversion_rate are copied the way roas is, and are left out of the rows)
DataPoint(a) ==
  [date |-> a.date, impressions |-> a.impressions, clicks |-> a.clicks,
   conversions |-> a.conversions, cost |-> a.cost, revenue |-> a.revenue,
   roas |-> a.roas]

\* the campaigns table: campaign id -> user_id of its owner
CampaignOwner == (1 :> 1) @@ (2 :> 1) @@ (3 :> 2)

\* the filters without Campaign.user_id == current_user.id
SelectedOfAnyUser(a, user, q) ==
  /\ a.campaign_id \in DOMAIN CampaignOwner
  /\ a.date >= q.start_date
  /\ a.date <= q.end_date
  /\ (q.campaign_id # 0 => a.campaign_id = q.campaign_id)

\* lines 28-38: the join and the filters of the query
Selected(a, user, q) ==
  /\ a.campaign_id \in DOMAIN CampaignOwner
  /\ CampaignOwner[a.campaign_id] = user
  /\ a.date >= q.start_date
  /\ a.date <= q.end_date
  /\ (q.campaign_id # 0 => a.campaign_id = q.campaign_id)

\* line 40: the rows the query returns, in table order
RECURSIVE QueryAll(_, _, _)
QueryAll(rows, user, q) ==
  IF rows = <<>> THEN <<>>
  ELSE LET rest == QueryAll(SubSeq(rows, 1, Len(rows) - 1), user, q)
           a == rows[Len(rows)]
       IN  IF Selected(a, user, q) THEN Append(rest, a) ELSE rest

\* lines 47-90: the response, or the error the summary computation raised
AnalyticsResponse(q, rows) ==
  IF SummaryRaises(rows)
  THEN [status |-> "ZeroDivisionError"]
  ELSE [status |-> "returned",
        campaign_id |-> q.campaign_id,
        start_date |-> q.start_date,
        end_date |-> q.end_date,
        data |-> [i \in 1..Len(rows) |-> DataPoint(rows[i])],
        summary |-> Summary(rows)]

----------------------------------------------------------------------------
(* Inputs of the analytics routes                                          *)

\* Most rows the campaign_analytics table holds.
MaxRows == 2

\* impressions, clicks, conversions, cost, revenue and the stored roas of a row.
\* The columns carry no check constraint: negative values can be stored.
RowMetrics ==
  { [impressions |-> 1000, clicks |-> 50, conversions |-> 5, cost |-> 100,
     revenue |-> 400, roas |-> Whole(4)],
    [impressions |-> 0, clicks |-> 0, conversions |-> 0, cost |-> 0,
     revenue |-> 0, roas |-> Zero],
    [impressions |-> -1000, clicks |-> -50, conversions |-> -5, cost |-> -100,
     revenue |-> -400, roas |-> Whole(4)],
    [impressions |-> 0, clicks |-> 10, conversions |-> 0, cost |-> 0,
     revenue |-> 20, roas |-> Zero] }

Dates == {1, 2}
Users == {1, 2}

Rows ==
  { Merge([campaign_id |-> c, date |-> d], m) :
      c \in DOMAIN CampaignOwner, d \in Dates, m \in RowMetrics }

\* AnalyticsQuery bodies; campaign_id 0 stands for a campaign_id left out
\* (None and 0 are both falsy at line 35)
Queries ==
  { [campaign_id |-> c, start_date |-> sd, end_date |-> 2] :
      c \in {0, 1, 3}, sd \in Dates }

NoRequest == [user |-> 0, campaign_id |-> 0, start_date |-> 0, end_date |-> 0]
NoResponse == [status |-> "none"]

\* a sync job adds one row to the campaign_analytics table
InsertAnalytics ==
  /\ Len(store) < MaxRows
  /\ \E a \in Rows : store' = Append(store, a)
  /\ request' = NoRequest
  /\ analytics_data' = <<>>
  /\ response' = NoResponse

\* POST /query by an authenticated user, served against the current table
QueryAnalytics ==
  /\ response = NoResponse
  /\ \E user \in Users, q \in Queries :
       LET rows == QueryAll(store, user, q)
       IN  /\ request' = Merge([user |-> user], q)
           /\ analytics_data' = rows
           /\ response' = AnalyticsResponse(q, rows)
  /\ UNCHANGED store

----------------------------------------------------------------------------
(* get_campaign_trends                                                     *)

\* lines 103-106: the campaign with that id, if the user owns it
OwnedCampaign(campaign_id, user) ==
  campaign_id \in DOMAIN CampaignOwner /\ CampaignOwner[campaign_id] = user

\* lines 118-122: the filter of the trends query
InWindow(a, campaign_id, start_date, end_date) ==
  /\ a.campaign_id = campaign_id
  /\ a.date >= start_date
  /\ a.date <= end_date

Ascending(rows) ==
  \A i, j \in 1..Len(rows) : i < j => rows[i].date <= rows[j].date

\* the query with .order_by(CampaignAnalytics.date) left out: table order
OrderByDateOmitted(rows) == {rows}

\* line 122: .order_by(CampaignAnalytics.date).all(); the database fixes no
\* order among rows of one date, so every ascending arrangement can come back
OrderByDate(rows) == {p \in Perms(rows) : Ascending(p)}

\* datetime.isoformat(): the date as text
IsoFormat(d) == [isoformat |-> d]

\* lines 128-138: one daily_data entry
DailyPoint(a) ==
  [date |-> IsoFormat(a.date), impressions |-> a.impressions, clicks |-> a.clicks,
   conversions |-> a.conversions, cost |-> a.cost, revenue |-> a.revenue,
   roas |-> a.roas]

\* the totals with revenue summed from the cost column
TrendTotalsRevenueFromCost(rows) ==
  [impressions |-> Sum(Column(rows, "impressions")),
   clicks      |-> Sum(Column(rows, "clicks")),
   conversions |-> Sum(Column(rows, "conversions")),
   cost        |-> Sum(Column(rows, "cost")),
   revenue     |-> Sum(Column(rows, "cost"))]

\* lines 140-146: the "totals" dict
TrendTotals(rows) ==
  [impressions |-> Sum(Column(rows, "impressions")),
   clicks      |-> Sum(Column(rows, "clicks")),
   conversions |-> Sum(Column(rows, "conversions")),
   cost        |-> Sum(Column(rows, "cost")),
   revenue     |-> Sum(Column(rows, "revenue"))]

\* lines 124-149: the trends dict built from the ordered rows
Trends(days, analytics) ==
  [status |-> "returned",
   period_days |-> days,
   data_points |-> Len(analytics),
   daily_data |-> [i \in 1..Len(analytics) |-> DailyPoint(analytics[i])],
   totals |-> TrendTotals(analytics)]

\* lines 108-112
NotFound == [status |-> "404"]

\* lines 93-149: the set of outcomes, one per order the database can give
\* the rows of one date
get_campaign_trends(user, campaign_id, days, now, rows) ==
  IF ~OwnedCampaign(campaign_id, user) THEN {NotFound}
  ELSE { Trends(days, analytics) :
           analytics \in OrderByDate(
             SelectSeq(rows, LAMBDA a : InWindow(a, campaign_id, now - days, now))) }

----------------------------------------------------------------------------
(* compare_campaigns                                                       *)

\* one piece of campaign_ids.split(","): text int() accepts, or other text
IntToken(n) == [kind |-> "int", value |-> n]
TextToken == [kind |-> "text"]

\* lines 210-211: int() raises ValueError on a piece that is no integer
RaisesValueError(tokens) == \E i \in 1..Len(tokens) : tokens[i].kind # "int"

\* line 211: ids = [int(id.strip()) for id in ...]
ParseIds(tokens) == [i \in 1..Len(tokens) |-> tokens[i].value]

\* the Campaign rows of the store: name and status by id
CampaignName == (1 :> "Alpha") @@ (2 :> "Beta") @@ (3 :> "Gamma")
CampaignStatus == (1 :> "active") @@ (2 :> "paused") @@ (3 :> "active")

\* every sequence that lists each element of S once
Orders(S) ==
  {q \in [1..Cardinality(S) -> S] : \A i, j \in 1..Cardinality(S) : q[i] = q[j] => i = j}

\* lines 219-222: Campaign.id.in_(ids), Campaign.user_id == current_user.id,
\* .all() without order_by: the matching campaigns in an order the database picks
OwnedAmong(ids, user) ==
  Orders({c \in DOMAIN CampaignOwner :
            /\ \E i \in 1..Len(ids) : ids[i] = c
            /\ CampaignOwner[c] = user})

\* the length check of line 224 left out
AllFoundUnchecked(found, ids) == TRUE

\* line 224
AllFound(found, ids) == Len(found) = Len(ids)

\* an entry only for campaigns that have rows in the window
CompareEntriesSkippingEmpty(found, start_date, end_date, rows) ==
  LET analytics(c) == SelectSeq(rows, LAMBDA a : InWindow(a, c, start_date, end_date))
      kept == SelectSeq(found, LAMBDA c : analytics(c) # <<>>)
  IN  [i \in 1..Len(kept) |->
         [campaign_id |-> kept[i], campaign_name |-> CampaignName[kept[i]],
          status |-> CampaignStatus[kept[i]],
          metrics |-> TrendTotals(analytics(kept[i]))
                        @@ [roas |-> QuotientIfPositive(
                                       Sum(Column(analytics(kept[i]), "revenue")),
                                       Sum(Column(analytics(kept[i]), "cost")))]]]

\* lines 234-257: one entry per campaign found, in the order found
CompareEntries(found, start_date, end_date, rows) ==
  LET analytics(c) == SelectSeq(rows, LAMBDA a : InWindow(a, c, start_date, end_date))
  IN  [i \in 1..Len(found) |->
         [campaign_id |-> found[i], campaign_name |-> CampaignName[found[i]],
          status |-> CampaignStatus[found[i]],
          metrics |->
            [impressions |-> Sum(Column(analytics(found[i]), "impressions")),
             clicks      |-> Sum(Column(analytics(found[i]), "clicks")),
             conversions |-> Sum(Column(analytics(found[i]), "conversions")),
             cost        |-> Sum(Column(analytics(found[i]), "cost")),
             revenue     |-> Sum(Column(analytics(found[i]), "revenue")),
             roas        |-> QuotientIfPositive(Sum(Column(analytics(found[i]), "revenue")),
                                                Sum(Column(analytics(found[i]), "cost")))]]]

\* line 260: f"Last {days} days"
PeriodText(days) == <<"Last ", days, " days">>

BadRequest == [status |-> "400"]

\* lines 199-263: the set of outcomes, one per order the store can answer in
compare_campaigns(user, campaign_ids, days, now, rows) ==
  IF RaisesValueError(campaign_ids) THEN {BadRequest}
  ELSE LET ids == ParseIds(campaign_ids)
       IN  { IF ~AllFound(found, ids) THEN NotFound
             ELSE LET entries == CompareEntries(found, now - days, now, rows)
                  IN  [status |-> "returned", period |-> PeriodText(days),
                       campaigns_compared |-> Len(entries), comparison |-> entries]
             : found \in OwnedAmong(ids, user) }

----------------------------------------------------------------------------
(* get_analytics_overview                                                  *)

\* lines 163-167: the ids of the user's campaigns
CampaignsOf(user) == {c \in DOMAIN CampaignOwner : CampaignOwner[c] = user}

\* lines 152-196
get_analytics_overview(user, days, now, rows) ==
  LET ids == CampaignsOf(user)
      analytics == SelectSeq(rows, LAMBDA a : /\ a.campaign_id \in ids
                                              /\ a.date >= now - days
                                              /\ a.date <= now)
      total_spend == Sum(Column(analytics, "cost"))
      total_revenue == Sum(Column(analytics, "revenue"))
      total_impressions == Sum(Column(analytics, "impressions"))
      total_clicks == Sum(Column(analytics, "clicks"))
      total_conversions == Sum(Column(analytics, "conversions"))
  IN  [status |-> "returned",
       period |-> PeriodText(days),
       total_campaigns |-> Cardinality(ids),
       active_campaigns |-> Cardinality({c \in ids : CampaignStatus[c] = "active"}),
       metrics |->
         [total_spend |-> total_spend,
          total_revenue |-> total_revenue,
          total_impressions |-> total_impressions,
          total_clicks |-> total_clicks,
          total_conversions |-> total_conversions,
          average_ctr |-> RMul(QuotientIfPositive(total_clicks, total_impressions), Whole(100)),
          average_roas |-> QuotientIfPositive(total_revenue, total_spend)]]

----------------------------------------------------------------------------
(* Inputs of the report routes                                             *)

\* longest campaign_ids list checked
MaxIds == 2

\* the ids of the three campaigns and one id no campaign has
RequestedIds == DOMAIN CampaignOwner \cup {4}

Tokens == {IntToken(c) : c \in RequestedIds} \cup {TextToken}

\* "".split(",") is [""], so the list is never empty
IdLists == UNION {[1..n -> Tokens] : n \in 1..MaxIds}

NoCompareRequest == [user |-> 0, campaign_ids |-> <<>>, days |-> 0, now |-> 0]
NoOverviewRequest == [user |-> 0, days |-> 0, now |-> 0]

\* the rows the report routes are checked on
ReportRows == {a \in Rows : a.impressions # 0}

\* the "days" query parameter: any int, 0 and negative included
DayChoices == {-1, 0, 1}

NoTrendRequest == [user |-> 0, campaign_id |-> 0, days |-> 0, now |-> 0]

\* a sync job adds one row to the campaign_analytics table; the answers
\* observed so far are dropped, so one answer is looked at per table state
InsertReportRow ==
  /\ Len(store) < MaxRows
  /\ \E a \in ReportRows : store' = Append(store, a)
  /\ trend_request' = NoTrendRequest
  /\ trends' = NoResponse
  /\ compare_request' = NoCompareRequest
  /\ comparison' = NoResponse
  /\ overview_request' = NoOverviewRequest
  /\ overview' = NoResponse
  /\ UNCHANGED <<request, analytics_data, response>>

\* GET /campaign/{campaign_id}/trends by an authenticated user, with
\* datetime.utcnow() returning now
GetCampaignTrends ==
  /\ trends = NoResponse /\ comparison = NoResponse /\ overview = NoResponse
  /\ \E user \in Users, campaign_id \in DOMAIN CampaignOwner,
        days \in DayChoices, now \in Dates :
       /\ trend_request' = [user |-> user, campaign_id |-> campaign_id,
                            days |-> days, now |-> now]
       /\ trends' \in get_campaign_trends(user, campaign_id, days, now, store)
  /\ UNCHANGED <<store, request, analytics_data, response, compare_request, comparison,
                 overview_request, overview>>

\* GET /compare?campaign_ids=...&days=... by an authenticated user, with
\* datetime.utcnow() returning now
CompareCampaigns ==
  /\ comparison = NoResponse /\ trends = NoResponse /\ overview = NoResponse
  /\ \E user \in Users, campaign_ids \in IdLists, days \in DayChoices, now \in Dates :
       /\ compare_request' = [user |-> user, campaign_ids |-> campaign_ids,
                              days |-> days, now |-> now]
       /\ comparison' \in compare_campaigns(user, campaign_ids, days, now, store)
  /\ UNCHANGED <<store, request, analytics_data, response, trend_request, trends,
                 overview_request, overview>>

\* GET /overview?days=... by an authenticated user, with datetime.utcnow()
\* returning now
GetAnalyticsOverview ==
  /\ comparison = NoResponse /\ trends = NoResponse /\ overview = NoResponse
  /\ \E user \in Users, days \in DayChoices, now \in Dates :
       /\ overview_request' = [user |-> user, days |-> days, now |-> now]
       /\ overview' = get_analytics_overview(user, days, now, store)
  /\ UNCHANGED <<store, request, analytics_data, response, trend_request, trends,
                 compare_request, comparison>>

\* a sync job adds one row to the table and every answer observed is dropped
InsertTenantRow ==
  /\ Len(store) < MaxRows
  /\ \E a \in ReportRows : store' = Append(store, a)
  /\ request' = NoRequest
  /\ analytics_data' = <<>>
  /\ response' = NoResponse
  /\ trend_request' = NoTrendRequest
  /\ trends' = NoResponse
  /\ compare_request' = NoCompareRequest
  /\ comparison' = NoResponse
  /\ overview_request' = NoOverviewRequest
  /\ overview' = NoResponse

----------------------------------------------------------------------------
(* CampaignOptimizer                                                       *)

\* a model attribute before any training or load (lines 21-22)
None == [state |-> "none"]

\* a freshly constructed estimator, not fitted yet (lines 54-59, 89-93)
Unfitted == [state |-> "unfitted"]

\* an estimator fitted on the training rows of dataset d, which were scaled
\* with a scaler fitted on dataset s
Fitted(d, s) == [state |-> "fitted", trained_on |-> d, scaled_by |-> s]

\* StandardScaler() of line 23, not fitted; a fitted scaler is named by the
\* dataset it was fitted on
NewScaler == 0

\* float("nan"): every ordering comparison with it is false
NaN == <<0, 0>>

\* line 119: min(0.95, score) without the min
ConfidenceUnclamped(score) == score

\* line 119: min(0.95, score); min keeps its first argument unless a later one
\* is strictly smaller
Confidence(score) == RMin(Rat(19, 20), score)

\* int(x): truncation toward zero
IntTrunc(x) ==
  IF Num(x) >= 0 THEN Num(x) \div Den(x) ELSE -((-Num(x)) \div Den(x))

\* line 132: max(0, int(predicted_conversions))
Conversions(predicted) == IF IntTrunc(predicted) > 0 THEN IntTrunc(predicted) ELSE 0

\* scaler.transform and estimator.predict raise NotFittedError before a fit
NotFitted(m, sc) == sc = NewScaler \/ m = Unfitted

\* predict_roas without the check of lines 110-111: None has no predict
predict_roas_unchecked(m, sc, predicted, score) ==
  IF m = None
  THEN [op |-> "predict_roas", status |-> "AttributeError"]
  ELSE IF NotFitted(m, sc)
  THEN [op |-> "predict_roas", status |-> "NotFittedError"]
  ELSE [op |-> "predict_roas", status |-> "returned",
        predicted_roas |-> predicted, confidence |-> Confidence(score)]

\* lines 108-121
predict_roas(m, sc, predicted, score) ==
  IF m = None
  THEN [op |-> "predict_roas", status |-> "ValueError", detail |-> "ROAS model not trained"]
  ELSE IF NotFitted(m, sc)
  THEN [op |-> "predict_roas", status |-> "NotFittedError"]
  ELSE [op |-> "predict_roas", status |-> "returned",
        predicted_roas |-> predicted, confidence |-> Confidence(score)]

\* lines 123-132
predict_conversions(m, sc, predicted) ==
  IF m = None
  THEN [op |-> "predict_conversions", status |-> "ValueError",
        detail |-> "Conversion model not trained"]
  ELSE IF NotFitted(m, sc)
  THEN [op |-> "predict_conversions", status |-> "NotFittedError"]
  ELSE [op |-> "predict_conversions", status |-> "returned",
        conversions |-> Conversions(predicted)]

----------------------------------------------------------------------------
(* Inputs and steps of CampaignOptimizer                                   *)

\* the threads that call the module-level campaign_optimizer of line 265
Threads == {1, 2}

\* training DataFrames, by name
Datasets == {1, 2}

\* what estimator.predict(...)[0] can give
PredictionChoices == {Rat(-3, 2), Rat(5, 2)}

\* what estimator.score(X, [prediction]) gives for the one row whose target
\* is the prediction itself: r2_score answers nan (fewer than two samples) or,
\* in older scikit-learn releases, 1.0
ScoreChoices == {NaN, Whole(1)}

\* the pickles load_models can find: none, those a save_models of a trained
\* optimizer wrote, or the scaler alone (save_models of an untrained one)
DiskChoices ==
  { [roas_model |-> None, conversion_model |-> None, scaler |-> -1],
    [roas_model |-> Fitted(1, 1), conversion_model |-> Fitted(1, 1), scaler |-> 1],
    [roas_model |-> None, conversion_model |-> None, scaler |-> NewScaler] }

Idle == [pc |-> "idle"]
NoResult == [op |-> "none", status |-> "none"]

\* lines 38-47 / 77-83: a thread enters train_roas_model or
\* train_conversion_model with DataFrame d and splits it
TrainBegin(t) ==
  /\ training[t] = Idle
  /\ \E target \in {"roas", "conversion"}, d \in Datasets :
       training' = [training EXCEPT ![t] =
                      [pc |-> "fit_scaler", target |-> target, data |-> d, scaled_by |-> NewScaler]]
  /\ UNCHANGED <<modelVars, result>>

\* line 50 / 86, first half of fit_transform: self.scaler.fit(X_train)
FitScaler(t) ==
  /\ training[t].pc = "fit_scaler"
  /\ scaler' = training[t].data
  /\ training' = [training EXCEPT ![t].pc = "transform"]
  /\ UNCHANGED <<roas_model, conversion_model, result>>

\* lines 50-51 / 86-87: self.scaler.transform of the train and test rows, with
\* whatever statistics self.scaler holds at that moment; a scaler that a
\* concurrent load_models replaced by an unfitted one raises NotFittedError
Transform(t) ==
  /\ training[t].pc = "transform"
  /\ IF scaler = NewScaler
     THEN /\ training' = [training EXCEPT ![t] = Idle]
          /\ result' = [op |-> "train_" \o training[t].target \o "_model",
                        status |-> "NotFittedError"]
     ELSE /\ training' = [training EXCEPT ![t].pc = "assign", ![t].scaled_by = scaler]
          /\ UNCHANGED result
  /\ UNCHANGED modelVars

\* line 54 / 89: self.roas_model = GradientBoostingRegressor(...) or
\* self.conversion_model = RandomForestRegressor(...)
AssignModel(t) ==
  /\ training[t].pc = "assign"
  /\ IF training[t].target = "roas"
     THEN roas_model' = Unfitted /\ UNCHANGED conversion_model
     ELSE conversion_model' = Unfitted /\ UNCHANGED roas_model
  /\ training' = [training EXCEPT ![t].pc = "fit_model"]
  /\ UNCHANGED <<scaler, result>>

\* line 60 / 94: self.roas_model.fit(X_train_scaled, y_train) fits the
\* estimator the attribute refers to now
FitModel(t) ==
  /\ training[t].pc = "fit_model"
  /\ IF training[t].target = "roas"
     THEN /\ roas_model' = Fitted(training[t].data, training[t].scaled_by)
          /\ UNCHANGED conversion_model
     ELSE /\ conversion_model' = Fitted(training[t].data, training[t].scaled_by)
          /\ UNCHANGED roas_model
  /\ training' = [training EXCEPT ![t].pc = "evaluate"]
  /\ UNCHANGED <<scaler, result>>

\* lines 63-73 / 97-106: score the estimator the attribute refers to now and
\* return the metrics
Evaluate(t) ==
  /\ training[t].pc = "evaluate"
  /\ LET m == IF training[t].target = "roas" THEN roas_model ELSE conversion_model
     IN  result' = [op |-> "train_" \o training[t].target \o "_model",
                    status |-> IF m = Unfitted THEN "NotFittedError" ELSE "returned"]
  /\ training' = [training EXCEPT ![t] = Idle]
  /\ UNCHANGED modelVars

PredictRoas ==
  /\ \E predicted \in PredictionChoices, score \in ScoreChoices :
       result' = predict_roas(roas_model, scaler, predicted, score)
  /\ UNCHANGED <<modelVars, training>>

PredictConversions ==
  /\ \E predicted \in PredictionChoices :
       result' = predict_conversions(conversion_model, scaler, predicted)
  /\ UNCHANGED <<modelVars, training>>

\* lines 207-218: each attribute is replaced if its pickle exists
LoadModels ==
  /\ \E disk \in DiskChoices :
       /\ roas_model' = IF disk.roas_model # None THEN disk.roas_model ELSE roas_model
       /\ conversion_model' = IF disk.conversion_model # None THEN disk.conversion_model
                              ELSE conversion_model
       /\ scaler' = IF disk.scaler >= 0 THEN disk.scaler ELSE scaler
  /\ result' = [op |-> "load_models", status |-> "returned"]
  /\ UNCHANGED training

\* lines 194-205: writes pickles, changes nothing of the optimizer
SaveModels ==
  /\ result' = [op |-> "save_models", status |-> "returned"]
  /\ UNCHANGED <<modelVars, training>>

----------------------------------------------------------------------------
(* CampaignOptimizer.generate_recommendations                              *)

Message(rule, text) == [rule |-> rule, text |-> text]

LowCtr == Message("ctr", "Low CTR detected. Consider improving ad creatives and headlines.")
ExcellentCtr == Message("ctr", "Excellent CTR! Consider scaling this campaign.")
HighCpc == Message("cpc", "High CPC detected. Review targeting and bidding strategy.")
MajorOptimization ==
  Message("roas", "ROAS significantly below target. Consider pausing campaign or major optimization.")
Optimize == Message("roas", "ROAS below target. Optimize targeting, creatives, or landing pages.")
ScaleBudget == Message("roas", "Excellent ROAS! Consider increasing budget to scale.")
PerformingWell == Message("none", "Campaign is performing well. Continue monitoring.")

\* lines 186 and 188: the f-strings, with the amount they format to two decimals
IncreaseBudget(amount) ==
  [rule |-> "budget", text |-> "Increase daily budget to $... for better results.",
   amount |-> Round2(amount)]
DecreaseBudget(amount) ==
  [rule |-> "budget", text |-> "Decrease daily budget to $... to improve efficiency.",
   amount |-> Round2(amount)]

\* lines 134-152
recommend_budget(data, target_roas) ==
  LET current_budget == Get(data, "daily_budget", Zero)
      current_roas == Get(data, "roas", Zero)
  IN  Round2(IF RLe(target_roas, current_roas) THEN RMul(current_budget, Rat(12, 10))
             ELSE IF RLe(RMul(target_roas, Rat(8, 10)), current_roas)
                  THEN RMul(current_budget, Rat(11, 10))
             ELSE IF RLe(RMul(target_roas, Rat(5, 10)), current_roas)
                  THEN current_budget
             ELSE RMul(current_budget, Rat(8, 10)))

\* the CTR rule with "ctr <= 1.0"
CtrMessagesInclusive(ctr) ==
  IF RLe(ctr, Whole(1)) THEN <<LowCtr>>
  ELSE IF RLt(Whole(3), ctr) THEN <<ExcellentCtr>>
  ELSE <<>>

\* lines 163-167
CtrMessages(ctr) ==
  IF RLt(ctr, Whole(1)) THEN <<LowCtr>>
  ELSE IF RLt(Whole(3), ctr) THEN <<ExcellentCtr>>
  ELSE <<>>

\* lines 169-171
CpcMessages(cpc) == IF RLt(Whole(5), cpc) THEN <<HighCpc>> ELSE <<>>

\* the ROAS rules as three separate ifs
RoasMessagesWithoutElif(roas, target_roas) ==
  (IF RLt(roas, RMul(target_roas, Rat(5, 10))) THEN <<MajorOptimization>> ELSE <<>>)
  \o (IF RLt(roas, target_roas) THEN <<Optimize>> ELSE <<>>)
  \o (IF RLt(RMul(target_roas, Rat(15, 10)), roas) THEN <<ScaleBudget>> ELSE <<>>)

\* lines 173-179: if / elif / elif, the first rule that matches
RoasMessages(roas, target_roas) ==
  IF RLt(roas, RMul(target_roas, Rat(5, 10))) THEN <<MajorOptimization>>
  ELSE IF RLt(roas, target_roas) THEN <<Optimize>>
  ELSE IF RLt(RMul(target_roas, Rat(15, 10)), roas) THEN <<ScaleBudget>>
  ELSE <<>>

\* lines 181-188
BudgetMessages(data, target_roas) ==
  LET daily_budget == Get(data, "daily_budget", Zero)
      recommended_budget == recommend_budget(data, target_roas)
  IN  IF RLt(daily_budget, recommended_budget) THEN <<IncreaseBudget(recommended_budget)>>
      ELSE IF RLt(recommended_budget, daily_budget) THEN <<DecreaseBudget(recommended_budget)>>
      ELSE <<>>

\* the neutral message appended whatever the list holds
OrPerformingWellAlways(recs) == Append(recs, PerformingWell)

\* lines 190-191
OrPerformingWell(recs) == IF recs = <<>> THEN <<PerformingWell>> ELSE recs

\* lines 154-192
generate_recommendations(data) ==
  LET ctr == Get(data, "ctr", Zero)
      cpc == Get(data, "cpc", Zero)
      roas == Get(data, "roas", Zero)
      target_roas == Get(data, "target_roas", Whole(3))
  IN  OrPerformingWell(CtrMessages(ctr) \o CpcMessages(cpc)
                         \o RoasMessages(roas, target_roas)
                         \o BudgetMessages(data, target_roas))

----------------------------------------------------------------------------
(* Inputs of generate_recommendations                                      *)

\* the values a caller can put under each key; a key left out is a missing key
FieldChoices ==
  [ctr          |-> {Rat(1, 2), Whole(1), Whole(2), Whole(3), Whole(4)},
   cpc          |-> {Whole(0), Whole(5), Whole(6)},
   roas         |-> {Rat(-3, 2), Whole(1), Rat(3, 2), Whole(3), Rat(9, 2), Whole(5)},
   target_roas  |-> {Whole(2), Whole(-2)},
   daily_budget |-> {Whole(0), Whole(100)}]

NotGenerated == <<[rule |-> "not_called"]>>

\* the caller sets one more key of the dict
SetField ==
  /\ \E k \in DOMAIN FieldChoices \ DOMAIN campaign_data :
       \E v \in FieldChoices[k] : campaign_data' = Put(campaign_data, k, v)
  /\ recommendations' = NotGenerated

\* campaign_optimizer.generate_recommendations(campaign_data)
GenerateRecommendations ==
  /\ recommendations = NotGenerated
  /\ recommendations' = generate_recommendations(campaign_data)
  /\ UNCHANGED campaign_data

----------------------------------------------------------------------------
(* Tokens: utils/auth_utils.py and api/routes/auth.py                      *)

\* str(user.id) and int(sub)
Str(n) == <<"str", n>>
ParseInt(t) == t[2]

\* ACCESS_TOKEN_EXPIRE_MINUTES and REFRESH_TOKEN_EXPIRE_DAYS, in ticks of the
\* clock: a refresh token outlives the access token issued with it
Lifetime == [access |-> 1, refresh |-> 2]

\* auth_utils.py lines 46-62: the claims jwt.encode signs
create_access_token(user_id, now) ==
  [sub |-> Str(user_id), email |-> <<"email", user_id>>,
   exp |-> now + Lifetime.access, type |-> "access"]

\* auth_utils.py lines 65-76
create_refresh_token(user_id, now) ==
  [sub |-> Str(user_id), exp |-> now + Lifetime.refresh, type |-> "refresh"]

\* a token that was not signed with SECRET_KEY
Forged == [sub |-> Str(1), exp |-> 9, type |-> "forged"]

\* auth_utils.py lines 79-91: jwt.decode checks the signature and the expiry
DecodeFails(token, signed, now) == token \notin signed \/ token.exp < now

Unauthorized(detail) == [status |-> "401", detail |-> detail]
Forbidden(detail) == [status |-> "403", detail |-> detail]

\* auth_utils.py lines 94-159: the bearer token is decoded and its "sub" looked up; the
\* "type" claim is not read
get_current_user(token, signed, now, active) ==
  IF DecodeFails(token, signed, now) THEN Unauthorized("Could not validate credentials")
  ELSE IF ParseInt(token.sub) \notin DOMAIN active THEN Unauthorized("User not found")
  ELSE IF ~active[ParseInt(token.sub)] THEN Forbidden("Inactive user")
  ELSE [status |-> "authenticated", user |-> ParseInt(token.sub)]

\* api/routes/auth.py lines 105-143
refresh_token(token, signed, now, active) ==
  IF DecodeFails(token, signed, now) THEN Unauthorized("Could not validate credentials")
  ELSE IF token.type # "refresh" THEN Unauthorized("Invalid token type")
  ELSE IF ParseInt(token.sub) \notin DOMAIN active \/ ~active[ParseInt(token.sub)]
  THEN Unauthorized("User not found or inactive")
  ELSE [status |-> "returned",
        access_token |-> create_access_token(ParseInt(token.sub), now),
        refresh_token |-> create_refresh_token(ParseInt(token.sub), now)]

\* api/routes/auth.py lines 63-97; password_ok is what authenticate_user finds
login(user_id, password_ok, now, active) ==
  IF ~password_ok THEN Unauthorized("Incorrect email or password")
  ELSE IF ~active[user_id] THEN Forbidden("Account is inactive")
  ELSE [status |-> "returned",
        access_token |-> create_access_token(user_id, now),
        refresh_token |-> create_refresh_token(user_id, now)]

\* the tokens a Token response hands out
TokensOf(r) == IF r.status = "returned" THEN {r.access_token, r.refresh_token} ELSE {}

----------------------------------------------------------------------------
(* Inputs and steps of the token routes                                    *)

\* the rows of the users table, by id
Accounts == {1, 2}

\* last tick of the clock
MaxClock == 2

NoAuthRequest == [route |-> "none"]

Tick ==
  /\ clock < MaxClock
  /\ clock' = clock + 1
  /\ UNCHANGED <<is_active, issued, auth_request, auth_response>>

\* an administrator deactivates an account
Deactivate ==
  /\ \E u \in Accounts : is_active[u] /\ is_active' = [is_active EXCEPT ![u] = FALSE]
  /\ UNCHANGED <<clock, issued, auth_request, auth_response>>

\* POST /login
Login ==
  /\ \E u \in Accounts, password_ok \in BOOLEAN :
       LET r == login(u, password_ok, clock, is_active)
       IN  /\ auth_request' = [route |-> "login", user |-> u, password_ok |-> password_ok]
           /\ auth_response' = r
           /\ issued' = issued \cup TokensOf(r)
  /\ UNCHANGED <<clock, is_active>>

\* POST /refresh with any token a client holds, or a forged one
Refresh ==
  /\ \E token \in issued \cup {Forged} :
       LET r == refresh_token(token, issued, clock, is_active)
       IN  /\ auth_request' = [route |-> "refresh", token |-> token]
           /\ auth_response' = r
           /\ issued' = issued \cup TokensOf(r)
  /\ UNCHANGED <<clock, is_active>>

\* a request to a route that depends on get_current_user, with any token a
\* client holds as bearer token, or a forged one
Authenticate ==
  /\ \E token \in issued \cup {Forged} :
       /\ auth_request' = [route |-> "protected", token |-> token]
       /\ auth_response' = get_current_user(token, issued, clock, is_active)
  /\ UNCHANGED <<clock, is_active, issued>>

----------------------------------------------------------------------------
(* Specifications                                                          *)

\* no allocation call made, no analytics request served, an empty table
AllocInit ==
  /\ campaigns = <<>>
  /\ total_budget \in BudgetChoices
  /\ campaign_scores = <<>>
  /\ alloc = NotCalled
  /\ store = <<>>
  /\ request = NoRequest
  /\ analytics_data = <<>>
  /\ response = NoResponse
  /\ trend_request = NoTrendRequest
  /\ trends = NoResponse
  /\ compare_request = NoCompareRequest
  /\ comparison = NoResponse
  /\ overview_request = NoOverviewRequest
  /\ overview = NoResponse
  /\ roas_model = None
  /\ conversion_model = None
  /\ scaler = NewScaler
  /\ training = [t \in Threads |-> Idle]
  /\ result = NoResult
  /\ campaign_data = EmptyDict
  /\ recommendations = NotGenerated
  /\ clock = 0
  /\ is_active = [u \in Accounts |-> TRUE]
  /\ issued = {}
  /\ auth_request = NoAuthRequest
  /\ auth_response = NoResponse

AnalyticsInit ==
  /\ campaigns = <<>>
  /\ total_budget = Zero
  /\ campaign_scores = <<>>
  /\ alloc = NotCalled
  /\ store = <<>>
  /\ request = NoRequest
  /\ analytics_data = <<>>
  /\ response = NoResponse
  /\ trend_request = NoTrendRequest
  /\ trends = NoResponse
  /\ compare_request = NoCompareRequest
  /\ comparison = NoResponse
  /\ overview_request = NoOverviewRequest
  /\ overview = NoResponse
  /\ roas_model = None
  /\ conversion_model = None
  /\ scaler = NewScaler
  /\ training = [t \in Threads |-> Idle]
  /\ result = NoResult
  /\ campaign_data = EmptyDict
  /\ recommendations = NotGenerated
  /\ clock = 0
  /\ is_active = [u \in Accounts |-> TRUE]
  /\ issued = {}
  /\ auth_request = NoAuthRequest
  /\ auth_response = NoResponse

AllocNext ==
  \/ AppendCampaign /\ UNCHANGED <<analyticsVars, reportVars, predictorVars, adviceVars, authVars>>
  \/ OptimizePortfolio /\ UNCHANGED <<analyticsVars, reportVars, predictorVars, adviceVars, authVars>>

\* the allocator alone
SpecAlloc == AllocInit /\ [][AllocNext]_vars

AnalyticsNext ==
  \/ InsertAnalytics /\ UNCHANGED <<allocVars, reportVars, predictorVars, adviceVars, authVars>>
  \/ QueryAnalytics /\ UNCHANGED <<allocVars, reportVars, predictorVars, adviceVars, authVars>>

\* query_analytics alone
SpecAnalytics == AnalyticsInit /\ [][AnalyticsNext]_vars

ReportInit ==
  /\ campaigns = <<>>
  /\ total_budget = Zero
  /\ campaign_scores = <<>>
  /\ alloc = NotCalled
  /\ store = <<>>
  /\ request = NoRequest
  /\ analytics_data = <<>>
  /\ response = NoResponse
  /\ trend_request = NoTrendRequest
  /\ trends = NoResponse
  /\ compare_request = NoCompareRequest
  /\ comparison = NoResponse
  /\ overview_request = NoOverviewRequest
  /\ overview = NoResponse
  /\ roas_model = None
  /\ conversion_model = None
  /\ scaler = NewScaler
  /\ training = [t \in Threads |-> Idle]
  /\ result = NoResult
  /\ campaign_data = EmptyDict
  /\ recommendations = NotGenerated
  /\ clock = 0
  /\ is_active = [u \in Accounts |-> TRUE]
  /\ issued = {}
  /\ auth_request = NoAuthRequest
  /\ auth_response = NoResponse

ReportNext ==
  \/ InsertReportRow /\ UNCHANGED <<allocVars, predictorVars, adviceVars, authVars>>
  \/ GetCampaignTrends /\ UNCHANGED <<allocVars, predictorVars, adviceVars, authVars>>
  \/ CompareCampaigns /\ UNCHANGED <<allocVars, predictorVars, adviceVars, authVars>>
  \/ GetAnalyticsOverview /\ UNCHANGED <<allocVars, predictorVars, adviceVars, authVars>>

\* the trend, comparison and overview routes
SpecReports == ReportInit /\ [][ReportNext]_vars

\* no request of the four analytics routes has been answered on this table
Quiet ==
  /\ response = NoResponse
  /\ trends = NoResponse
  /\ comparison = NoResponse
  /\ overview = NoResponse

TenantNext ==
  \/ InsertTenantRow /\ UNCHANGED <<allocVars, predictorVars, adviceVars, authVars>>
  \/ Quiet /\ QueryAnalytics /\ UNCHANGED <<allocVars, reportVars, predictorVars, adviceVars, authVars>>
  \/ Quiet /\ GetCampaignTrends /\ UNCHANGED <<allocVars, predictorVars, adviceVars, authVars>>
  \/ Quiet /\ CompareCampaigns /\ UNCHANGED <<allocVars, predictorVars, adviceVars, authVars>>
  \/ Quiet /\ GetAnalyticsOverview /\ UNCHANGED <<allocVars, predictorVars, adviceVars, authVars>>

\* the four analytics routes, called by two users on one table
SpecTenants == ReportInit /\ [][TenantNext]_vars

PredictorInit ==
  /\ campaigns = <<>>
  /\ total_budget = Zero
  /\ campaign_scores = <<>>
  /\ alloc = NotCalled
  /\ store = <<>>
  /\ request = NoRequest
  /\ analytics_data = <<>>
  /\ response = NoResponse
  /\ trend_request = NoTrendRequest
  /\ trends = NoResponse
  /\ compare_request = NoCompareRequest
  /\ comparison = NoResponse
  /\ overview_request = NoOverviewRequest
  /\ overview = NoResponse
  /\ roas_model = None
  /\ conversion_model = None
  /\ scaler = NewScaler
  /\ training = [t \in Threads |-> Idle]
  /\ result = NoResult
  /\ campaign_data = EmptyDict
  /\ recommendations = NotGenerated
  /\ clock = 0
  /\ is_active = [u \in Accounts |-> TRUE]
  /\ issued = {}
  /\ auth_request = NoAuthRequest
  /\ auth_response = NoResponse

TrainStep(t) ==
  \/ TrainBegin(t)
  \/ FitScaler(t)
  \/ Transform(t)
  \/ AssignModel(t)
  \/ FitModel(t)
  \/ Evaluate(t)

PredictorNext ==
  \/ \E t \in Threads : TrainStep(t) /\ UNCHANGED <<allocVars, analyticsVars, reportVars, adviceVars, authVars>>
  \/ PredictRoas /\ UNCHANGED <<allocVars, analyticsVars, reportVars, adviceVars, authVars>>
  \/ PredictConversions /\ UNCHANGED <<allocVars, analyticsVars, reportVars, adviceVars, authVars>>
  \/ LoadModels /\ UNCHANGED <<allocVars, analyticsVars, reportVars, adviceVars, authVars>>
  \/ SaveModels /\ UNCHANGED <<allocVars, analyticsVars, reportVars, adviceVars, authVars>>

\* the shared CampaignOptimizer under calls from several threads
SpecPredictor == PredictorInit /\ [][PredictorNext]_vars

TrainingNext ==
  \/ \E t \in Threads : TrainStep(t) /\ UNCHANGED <<allocVars, analyticsVars, reportVars, adviceVars, authVars>>
  \/ PredictRoas /\ UNCHANGED <<allocVars, analyticsVars, reportVars, adviceVars, authVars>>
  \/ PredictConversions /\ UNCHANGED <<allocVars, analyticsVars, reportVars, adviceVars, authVars>>

\* the shared CampaignOptimizer under training and prediction calls only
SpecTraining == PredictorInit /\ [][TrainingNext]_vars

\* no train_*_model call is in progress
AllIdle == \A t \in Threads : training[t] = Idle

\* one call at a time: a thread steps only while no other thread is inside a
\* training, and predictions are made between trainings
SequentialNext ==
  \/ \E t \in Threads :
       /\ \A u \in Threads \ {t} : training[u] = Idle
       /\ TrainStep(t)
       /\ UNCHANGED <<allocVars, analyticsVars, reportVars, adviceVars, authVars>>
  \/ AllIdle /\ PredictRoas
       /\ UNCHANGED <<allocVars, analyticsVars, reportVars, adviceVars, authVars>>
  \/ AllIdle /\ PredictConversions
       /\ UNCHANGED <<allocVars, analyticsVars, reportVars, adviceVars, authVars>>

\* the CampaignOptimizer under training and prediction calls made one after
\* the other
SpecSequential == PredictorInit /\ [][SequentialNext]_vars

AdviceInit ==
  /\ campaigns = <<>>
  /\ total_budget = Zero
  /\ campaign_scores = <<>>
  /\ alloc = NotCalled
  /\ store = <<>>
  /\ request = NoRequest
  /\ analytics_data = <<>>
  /\ response = NoResponse
  /\ trend_request = NoTrendRequest
  /\ trends = NoResponse
  /\ compare_request = NoCompareRequest
  /\ comparison = NoResponse
  /\ overview_request = NoOverviewRequest
  /\ overview = NoResponse
  /\ roas_model = None
  /\ conversion_model = None
  /\ scaler = NewScaler
  /\ training = [t \in Threads |-> Idle]
  /\ result = NoResult
  /\ campaign_data = EmptyDict
  /\ recommendations = NotGenerated
  /\ clock = 0
  /\ is_active = [u \in Accounts |-> TRUE]
  /\ issued = {}
  /\ auth_request = NoAuthRequest
  /\ auth_response = NoResponse

AuthInit ==
  /\ campaigns = <<>>
  /\ total_budget = Zero
  /\ campaign_scores = <<>>
  /\ alloc = NotCalled
  /\ store = <<>>
  /\ request = NoRequest
  /\ analytics_data = <<>>
  /\ response = NoResponse
  /\ trend_request = NoTrendRequest
  /\ trends = NoResponse
  /\ compare_request = NoCompareRequest
  /\ comparison = NoResponse
  /\ overview_request = NoOverviewRequest
  /\ overview = NoResponse
  /\ roas_model = None
  /\ conversion_model = None
  /\ scaler = NewScaler
  /\ training = [t \in Threads |-> Idle]
  /\ result = NoResult
  /\ campaign_data = EmptyDict
  /\ recommendations = NotGenerated
  /\ clock = 0
  /\ is_active = [u \in Accounts |-> TRUE]
  /\ issued = {}
  /\ auth_request = NoAuthRequest
  /\ auth_response = NoResponse

AuthNext ==
  \/ Tick /\ UNCHANGED <<allocVars, analyticsVars, reportVars, predictorVars, adviceVars>>
  \/ Deactivate /\ UNCHANGED <<allocVars, analyticsVars, reportVars, predictorVars, adviceVars>>
  \/ Login /\ UNCHANGED <<allocVars, analyticsVars, reportVars, predictorVars, adviceVars>>
  \/ Refresh /\ UNCHANGED <<allocVars, analyticsVars, reportVars, predictorVars, adviceVars>>
  \/ Authenticate /\ UNCHANGED <<allocVars, analyticsVars, reportVars, predictorVars, adviceVars>>

\* login, refresh and authenticated requests
SpecAuth == AuthInit /\ [][AuthNext]_vars

AdviceNext ==
  \/ SetField /\ UNCHANGED <<allocVars, analyticsVars, reportVars, predictorVars, authVars>>
  \/ GenerateRecommendations /\ UNCHANGED <<allocVars, analyticsVars, reportVars, predictorVars, authVars>>

\* generate_recommendations on the dicts a caller builds
SpecAdvice == AdviceInit /\ [][AdviceNext]_vars

----------------------------------------------------------------------------
(* Properties of the allocator                                             *)

Called == alloc.status # "not_called"
Returned == alloc.status = "returned"

MinBudgetOf(c) == Get(c, "min_budget", Whole(10))
MaxBudgetOf(c) == Get(c, "max_budget", Whole(1000))

\* sum of the scores of the input campaigns, taken in input order
RECURSIVE SumOfScores(_)
SumOfScores(cs) ==
  IF cs = <<>> THEN Zero ELSE RAdd(Efficiency(Head(cs)), SumOfScores(Tail(cs)))

Clamp(x, lo, hi) == IF RLt(x, lo) THEN lo ELSE IF RLt(hi, x) THEN hi ELSE x

\* campaign i is the one whose allocation the mapping holds for its id: it is
\* the only campaign with that id, or among those that share the id it has the
\* lowest score, and among those of that lowest score it comes last in the input
HoldsItsId(i) ==
  \A j \in 1..Len(campaigns) :
    (j # i /\ campaigns[j]["id"] = campaigns[i]["id"]) =>
      \/ RLt(Efficiency(campaigns[i]), Efficiency(campaigns[j]))
      \/ Efficiency(campaigns[i]) = Efficiency(campaigns[j]) /\ j < i

\* the score the specification states: 0.7 * roas + 0.3 * (conversions / max(cost, 1)),
\* a missing cost counting as below 1
StatedScore(c) ==
  LET cost == Get(c, "cost", Zero)
  IN  RAdd(RMul(Rat(7, 10), Get(c, "roas", Zero)),
           RMul(Rat(3, 10), RDiv(Get(c, "conversions", Zero), RMax(cost, Whole(1)))))

ScenarioA == [id |-> 1, roas |-> Whole(4), conversions |-> Whole(10), cost |-> Whole(100)]
ScenarioB == [id |-> 2, roas |-> Whole(1), conversions |-> Whole(2), cost |-> Whole(50)]

\* C1: for a non-empty campaign list and total_budget > 0, every value of the
\* returned mapping lies within [min_budget, max_budget] of a campaign carrying
\* that id, in the proportional branch and in the equal-split fallback alike.
C1_AllocationsWithinBounds ==
  (Returned /\ campaigns # <<>> /\ RLt(Zero, total_budget)) =>
    \A k \in DOMAIN alloc.allocations :
      \E i \in 1..Len(campaigns) :
        /\ campaigns[i]["id"] = k
        /\ RLe(MinBudgetOf(campaigns[i]), alloc.allocations[k])
        /\ RLe(alloc.allocations[k], MaxBudgetOf(campaigns[i]))

\* C2 as stated: for any campaign list and any reordering of it, with the same
\* total_budget (> 0), the call ends the same way and returns the same
\* identity->budget mapping.
C2_PermutationInvariant ==
  (Called /\ RLt(Zero, total_budget)) =>
    \A p \in Perms(campaigns) :
      LET r == optimize_portfolio(p, total_budget)
      IN  r.status = alloc.status /\ r.allocations = alloc.allocations

\* two campaigns that share an id and an efficiency score also share bounds
\* (true of every list whose ids are distinct)
TiedDuplicatesAgree(cs) ==
  \A i, j \in 1..Len(cs) :
    (cs[i]["id"] = cs[j]["id"] /\ Efficiency(cs[i]) = Efficiency(cs[j])) =>
      /\ MinBudgetOf(cs[i]) = MinBudgetOf(cs[j])
      /\ MaxBudgetOf(cs[i]) = MaxBudgetOf(cs[j])

\* C2 (amended): the call ends the same way and the mapping is the same for
\* every reordering of the campaign list, provided campaigns that share both an
\* id and an efficiency score also share their bounds (in particular whenever
\* the ids are distinct).
C2_PermutationInvariantNoTiedDuplicates ==
  (Called /\ (Returned => TiedDuplicatesAgree(campaigns))) =>
    \A p \in Perms(campaigns) :
      LET r == optimize_portfolio(p, total_budget)
      IN  r.status = alloc.status /\ r.allocations = alloc.allocations

\* a returned call on a list the sort has to reorder, with two different
\* allocations
C2_Witness ==
  /\ Returned
  /\ Len(campaigns) = 2
  /\ campaigns[1]["id"] # campaigns[2]["id"]
  /\ RLt(Efficiency(campaigns[1]), Efficiency(campaigns[2]))
  /\ alloc.allocations[campaigns[1]["id"]] # alloc.allocations[campaigns[2]["id"]]

\* C3: when the sum E of the scores is > 0, the allocation of every campaign
\* is round2(clamp((e / E) * total_budget, min_budget, max_budget)) of its own
\* score e and bounds, whatever the other campaigns' clamps did (where several
\* campaigns carry one id, this is said of the one whose value the mapping
\* holds); for A, B of the scenario and total_budget 300 it is A = 239.70 and
\* B = 60.30.
C3_ProportionalShare ==
  /\ (Returned /\ RLt(Zero, SumOfScores(campaigns))) =>
       \A i \in 1..Len(campaigns) :
         HoldsItsId(i) =>
           alloc.allocations[campaigns[i]["id"]] =
             Round2(Clamp(RMul(RDiv(Efficiency(campaigns[i]), SumOfScores(campaigns)),
                               total_budget),
                          MinBudgetOf(campaigns[i]), MaxBudgetOf(campaigns[i])))
  /\ (Returned /\ campaigns = <<ScenarioA, ScenarioB>> /\ total_budget = Whole(300)) =>
       /\ alloc.allocations[1] = Rat(23970, 100)
       /\ alloc.allocations[2] = Rat(6030, 100)

\* the scenario of the specification has been allocated
C3_Witness ==
  /\ Returned
  /\ campaigns = <<ScenarioA, ScenarioB>>
  /\ total_budget = Whole(300)
  /\ DOMAIN alloc.allocations = {1, 2}

AllZeroMetrics(cs) ==
  \A i \in 1..Len(cs) :
    Get(cs[i], "roas", Zero) = Zero /\ Get(cs[i], "conversions", Zero) = Zero

\* C4: when every campaign has roas = 0 and conversions = 0 (and total_budget
\* is > 0), the call returns
\* and gives every campaign total_budget / campaign_count rounded to 2 decimals.
C4_EqualSplit ==
  (Called /\ RLt(Zero, total_budget) /\ campaigns # <<>> /\ AllZeroMetrics(campaigns)) =>
    /\ Returned
    /\ \A i \in 1..Len(campaigns) :
         alloc.allocations[campaigns[i]["id"]] =
           Round2(RDiv(total_budget, Whole(Len(campaigns))))

\* C5: a call with total_budget > 0 that returns has computed, for every campaign, the efficiency
\* score 0.7 * roas + 0.3 * (conversions / max(cost, 1)): the divisor is 1 for
\* every cost below 1.
C5_EfficiencyUsesCostFloor ==
  (Returned /\ RLt(Zero, total_budget)) =>
    /\ Len(campaign_scores) = Len(campaigns)
    /\ \A i \in 1..Len(campaigns) :
         \E j \in 1..Len(campaign_scores) :
           /\ campaign_scores[j].campaign_id = campaigns[i]["id"]
           /\ campaign_scores[j].efficiency = StatedScore(campaigns[i])

\* C6: a call with total_budget > 0 on a list holding a campaign whose cost is
\* 0 returns a mapping; it never ends in a division-by-zero error.
C6_NoDivisionByZero ==
  (Called /\ RLt(Zero, total_budget)
          /\ \E i \in 1..Len(campaigns) : Get(campaigns[i], "cost", Whole(1)) = Zero) =>
    Returned

\* C7: a call with total_budget <= 0 or an empty campaign list fails with
\* InvalidArgument and returns no mapping.
C7_InvalidArgument ==
  (Called /\ (RLe(total_budget, Zero) \/ campaigns = <<>>)) =>
    alloc.status = "InvalidArgument"

\* position of the first entry of the sorted list that carries this id
FirstIndex(s, k) == CHOOSE i \in 1..Len(s) : s[i].campaign_id = k /\ \A j \in 1..(i - 1) : s[j].campaign_id # k

\* C21: the campaigns are processed in descending score order, campaigns of
\* equal score in their input order, and the keys of the returned mapping
\* come in the order in which the campaigns were processed.
C21_StableDescendingOrder ==
  Returned =>
    LET input == CampaignScores(campaigns)
        n == Len(input)
    IN  /\ Len(campaign_scores) = n
        /\ \E f \in [1..n -> 1..n] :
             /\ \A i, j \in 1..n : f[i] = f[j] => i = j
             /\ \A i \in 1..n : campaign_scores[i] = input[f[i]]
             /\ \A i, j \in 1..n :
                  i < j => \/ RLt(input[f[j]].efficiency, input[f[i]].efficiency)
                           \/ /\ input[f[j]].efficiency = input[f[i]].efficiency
                              /\ f[i] < f[j]
        /\ {alloc.key_order[a] : a \in 1..Len(alloc.key_order)} = DOMAIN alloc.allocations
        /\ \A a, b \in 1..Len(alloc.key_order) :
             a < b => FirstIndex(campaign_scores, alloc.key_order[a])
                        < FirstIndex(campaign_scores, alloc.key_order[b])

\* two campaigns of equal positive score, id 2 given before id 1: the mapping
\* lists 2 first
C21_Witness ==
  /\ Returned
  /\ Len(campaigns) = 2
  /\ campaigns[1]["id"] = 2
  /\ campaigns[2]["id"] = 1
  /\ Efficiency(campaigns[1]) = Efficiency(campaigns[2])
  /\ RLt(Zero, Efficiency(campaigns[1]))
  /\ alloc.key_order = <<2, 1>>

InputIds == {campaigns[i]["id"] : i \in 1..Len(campaigns)}

\* the value lines 252-259 compute for input campaign i
ComputedFor(i) ==
  Allocation(ScoreEntry(campaigns[i]), SumOfScores(campaigns), total_budget, Len(campaigns))

\* C27: the keys of the returned mapping are exactly the ids of the input
\* campaigns; an id carried by several campaigns has one value, the one
\* computed for one of them.
C27_KeysAreInputIds ==
  Returned =>
    /\ DOMAIN alloc.allocations = InputIds
    /\ \A k \in DOMAIN alloc.allocations :
         \E i \in 1..Len(campaigns) :
           campaigns[i]["id"] = k /\ alloc.allocations[k] = ComputedFor(i)

\* two campaigns share an id and their computed values differ: one key, and
\* it holds the value of the second
C27_Witness ==
  /\ Returned
  /\ Len(campaigns) = 2
  /\ campaigns[1]["id"] = campaigns[2]["id"]
  /\ ComputedFor(1) # ComputedFor(2)
  /\ DOMAIN alloc.allocations = {campaigns[1]["id"]}
  /\ alloc.allocations[campaigns[1]["id"]] = ComputedFor(2)

\* sum of the values of a mapping
RECURSIVE SumOfValues(_)
SumOfValues(m) ==
  IF DOMAIN m = {} THEN Zero
  ELSE LET k == CHOOSE x \in DOMAIN m : TRUE
       IN  RAdd(m[k], SumOfValues([x \in DOMAIN m \ {k} |-> m[x]]))

RAbs(x) == Rat(Abs(Num(x)), Den(x))

\* (e / E) * total_budget of input campaign i
RawShare(i) ==
  RMul(RDiv(Efficiency(campaigns[i]), SumOfScores(campaigns)), total_budget)

\* E > 0, no score negative, no raw share outside its campaign's bounds
NoClampApplies ==
  /\ RLt(Zero, SumOfScores(campaigns))
  /\ \A i \in 1..Len(campaigns) :
       /\ RLe(Zero, Efficiency(campaigns[i]))
       /\ RLe(MinBudgetOf(campaigns[i]), RawShare(i))
       /\ RLe(RawShare(i), MaxBudgetOf(campaigns[i]))

SumWithinRounding ==
  RLe(RAbs(RAdd(SumOfValues(alloc.allocations), RMul(Whole(-1), total_budget))),
      RMul(Rat(5, 1000), Whole(Len(campaigns))))

\* C28 as stated: when no clamp applies the values of the mapping add up to
\* total_budget within 0.005 per campaign.
C28_SumIsBudget ==
  (Returned /\ NoClampApplies) => SumWithinRounding

\* C28: the same, for campaigns whose ids are pairwise distinct.
C28_SumIsBudgetDistinctIds ==
  (Returned /\ NoClampApplies /\ Cardinality(InputIds) = Len(campaigns)) =>
    SumWithinRounding

\* the scenario: A and B with 300, raw shares 239.695... and 60.304...
C28_Witness ==
  /\ Returned
  /\ NoClampApplies
  /\ campaigns = <<ScenarioA, ScenarioB>>
  /\ total_budget = Whole(300)
  /\ alloc.allocations[1] # RawShare(1)
  /\ SumOfValues(alloc.allocations) = Whole(300)

----------------------------------------------------------------------------
(* Properties of query_analytics                                           *)

Answered == response.status = "returned"

\* the sum of one column over the rows of a sequence, taken from the head
RECURSIVE ColumnTotal(_, _)
ColumnTotal(rows, field) ==
  IF rows = <<>> THEN 0 ELSE Head(rows)[field] + ColumnTotal(Tail(rows), field)

\* C8: each of the five raw totals of the summary is the sum of that field
\* over exactly the records the summary was computed from.
C8_TotalsAreSums ==
  Answered =>
    /\ response.summary.total_impressions = ColumnTotal(analytics_data, "impressions")
    /\ response.summary.total_clicks = ColumnTotal(analytics_data, "clicks")
    /\ response.summary.total_conversions = ColumnTotal(analytics_data, "conversions")
    /\ response.summary.total_cost = ColumnTotal(analytics_data, "cost")
    /\ response.summary.total_revenue = ColumnTotal(analytics_data, "revenue")

\* a summary over two records whose totals are not those of either record
C8_Witness ==
  /\ Answered
  /\ Len(analytics_data) = 2
  /\ response.summary.total_clicks = 60
  /\ response.summary.total_impressions = 1000
  /\ response.summary.total_revenue = 420

\* C9 as stated: each ratio is 0 when its denominator total is 0 and the
\* quotient of the totals otherwise, negative totals included.
C9_RatiosZeroOnlyAtZero ==
  Answered =>
    LET t == response.summary
    IN  /\ t.average_ctr = IF t.total_impressions = 0 THEN Zero
                           ELSE Rat(t.total_clicks * 100, t.total_impressions)
        /\ t.average_cpc = IF t.total_clicks = 0 THEN Zero
                           ELSE Rat(t.total_cost, t.total_clicks)
        /\ t.average_cpa = IF t.total_conversions = 0 THEN Zero
                           ELSE Rat(t.total_cost, t.total_conversions)
        /\ t.total_roas = IF t.total_cost = 0 THEN Zero
                          ELSE Rat(t.total_revenue, t.total_cost)

\* C9 (amended): each ratio is 0 when its denominator total is 0 or negative,
\* and the quotient of the totals (times 100 for average_ctr) otherwise.
C9_RatiosZeroUnlessPositive ==
  Answered =>
    LET t == response.summary
    IN  /\ t.average_ctr = IF t.total_impressions <= 0 THEN Zero
                           ELSE Rat(t.total_clicks * 100, t.total_impressions)
        /\ t.average_cpc = IF t.total_clicks <= 0 THEN Zero
                           ELSE Rat(t.total_cost, t.total_clicks)
        /\ t.average_cpa = IF t.total_conversions <= 0 THEN Zero
                           ELSE Rat(t.total_cost, t.total_conversions)
        /\ t.total_roas = IF t.total_cost <= 0 THEN Zero
                          ELSE Rat(t.total_revenue, t.total_cost)

\* the scenario of the specification: one record {1000, 50, 5, 100, 400}
\* gives ctr 5.0, cpc 2.0, cpa 20.0, roas 4.0
C9_Witness ==
  /\ Answered
  /\ Len(analytics_data) = 1
  /\ response.summary.average_ctr = Whole(5)
  /\ response.summary.average_cpc = Whole(2)
  /\ response.summary.average_cpa = Whole(20)
  /\ response.summary.total_roas = Whole(4)

\* C10: the summary of the empty record sequence has five totals of 0 and
\* four ratios of 0.
C10_EmptyIsAllZero ==
  (Answered /\ analytics_data = <<>>) =>
    LET t == response.summary
    IN  /\ t.total_impressions = 0
        /\ t.total_clicks = 0
        /\ t.total_conversions = 0
        /\ t.total_cost = 0
        /\ t.total_revenue = 0
        /\ t.average_ctr = Zero
        /\ t.average_cpc = Zero
        /\ t.average_cpa = Zero
        /\ t.total_roas = Zero

\* a request whose filters select no row of a non-empty table
C10_Witness ==
  /\ Answered
  /\ store # <<>>
  /\ analytics_data = <<>>
  /\ response.data = <<>>

\* C11: the summary computation never raises: every request is answered with
\* a summary, also when the selected records hold negative values and when
\* their totals cancel to 0 or are negative.
C11_SummarizeNeverRaises ==
  request # NoRequest => Answered /\ "summary" \in DOMAIN response

\* a summary of two records whose totals cancel to 0
C11_Witness ==
  /\ Answered
  /\ Len(analytics_data) = 2
  /\ analytics_data[1].impressions # 0
  /\ response.summary.total_impressions = 0
  /\ response.summary.total_clicks = 0
  /\ response.summary.total_conversions = 0
  /\ response.summary.total_cost = 0

----------------------------------------------------------------------------
(* Properties of get_campaign_trends                                       *)

TrendReturned == trends.status = "returned"

\* C12: a trends request whose window_days ("days") is zero or negative fails
\* with InvalidArgument and returns no trend.
C12_NonPositiveWindowRejected ==
  (trends # NoResponse /\ trend_request.days <= 0
     /\ OwnedCampaign(trend_request.campaign_id, trend_request.user)) =>
    trends.status = "InvalidArgument"

SummaryRatioKeys == {"average_ctr", "average_cpc", "average_cpa", "total_roas"}

C20_DailyAscending ==
  TrendReturned =>
    \A i, j \in 1..Len(trends.daily_data) :
      i < j => trends.daily_data[i].date.isoformat <= trends.daily_data[j].date.isoformat

\* the table holds the later day first, and the trend lists both days
C20_Witness ==
  /\ TrendReturned
  /\ Len(store) = 2
  /\ store[1].date > store[2].date
  /\ Len(trends.daily_data) = 2

----------------------------------------------------------------------------
(* Properties of compare_campaigns                                         *)

CompareAnswered == comparison # NoResponse
CompareReturned == comparison.status = "returned"
Parsed == ~RaisesValueError(compare_request.campaign_ids)
RequestedId(i) == compare_request.campaign_ids[i].value

\* the campaign has a row in the table within the window of the request
HasData(c) ==
  \E i \in 1..Len(store) :
    InWindow(store[i], c, compare_request.now - compare_request.days, compare_request.now)

\* every requested id is a campaign of the caller
Resolves(c) == OwnedCampaign(c, compare_request.user)

\* C14: a comparison holds exactly one entry for every requested campaign, and
\* a campaign with no records in the window is listed with all totals 0 and
\* roas 0.
C14_OneEntryPerCampaign ==
  CompareReturned =>
    /\ Len(comparison.comparison) = Len(compare_request.campaign_ids)
    /\ comparison.campaigns_compared = Len(compare_request.campaign_ids)
    /\ \A i \in 1..Len(compare_request.campaign_ids) :
         Cardinality({j \in 1..Len(comparison.comparison) :
                        comparison.comparison[j].campaign_id = RequestedId(i)}) = 1
    /\ \A j \in 1..Len(comparison.comparison) :
         ~HasData(comparison.comparison[j].campaign_id) =>
           comparison.comparison[j].metrics =
             [impressions |-> 0, clicks |-> 0, conversions |-> 0, cost |-> 0,
              revenue |-> 0, roas |-> Zero]

\* two campaigns compared, one with a record in the window and one without
C14_Witness ==
  /\ CompareReturned
  /\ Len(comparison.comparison) = 2
  /\ \E j, k \in 1..2 :
       /\ HasData(comparison.comparison[j].campaign_id)
       /\ comparison.comparison[j].metrics.impressions = 1000
       /\ ~HasData(comparison.comparison[k].campaign_id)
       /\ comparison.comparison[k].metrics.impressions = 0

\* C15: the comparison lists the campaigns in the order their ids were given,
\* whatever order the store returns the campaigns in.
C15_InputOrderKept ==
  CompareReturned =>
    \A i \in 1..Len(comparison.comparison) :
      comparison.comparison[i].campaign_id = RequestedId(i)

\* C16: when the id list parses and at least one requested id does not resolve
\* to a campaign of the caller, the answer is NotFound and no comparison.
C16_UnresolvedIsNotFound ==
  (CompareAnswered /\ Parsed
     /\ \E i \in 1..Len(compare_request.campaign_ids) : ~Resolves(RequestedId(i))) =>
    comparison = NotFound

\* one requested id resolves and the other does not
C16_Witness ==
  /\ comparison = NotFound
  /\ Len(compare_request.campaign_ids) = 2
  /\ Parsed
  /\ Resolves(RequestedId(1))
  /\ ~Resolves(RequestedId(2))

\* C29: the answer is NotFound only if some requested id does not resolve;
\* when every requested id is a campaign of the caller, also with an id
\* listed more than once, a comparison is returned.
C29_NotFoundOnlyIfUnresolved ==
  (CompareAnswered /\ Parsed
     /\ \A i \in 1..Len(compare_request.campaign_ids) : Resolves(RequestedId(i))) =>
    CompareReturned

----------------------------------------------------------------------------
(* Properties of CampaignOptimizer                                         *)

\* C17: a predict_roas or predict_conversions call made while its model is
\* still None (never assigned by a training or a load) raises the "model not
\* trained" ValueError, returns no prediction and changes nothing of the
\* optimizer.
C17_PredictBeforeTrainRaises ==
  [][ /\ (PredictRoas /\ roas_model = None) =>
           /\ result'.status = "ValueError"
           /\ result'.detail = "ROAS model not trained"
           /\ UNCHANGED <<modelVars, training>>
      /\ (PredictConversions /\ conversion_model = None) =>
           /\ result'.status = "ValueError"
           /\ result'.detail = "Conversion model not trained"
           /\ UNCHANGED <<modelVars, training>> ]_vars

\* predict_roas has raised although the conversion model is trained
C17_Witness ==
  /\ result.op = "predict_roas"
  /\ result.status = "ValueError"
  /\ roas_model = None
  /\ conversion_model = Fitted(2, 2)
  /\ scaler = 2

\* C18: the confidence returned by a successful predict_roas is a number in
\* [0, 1] and at most 0.95, for every value the estimator's score can take.
C18_ConfidenceInRange ==
  (result.op = "predict_roas" /\ result.status = "returned") =>
    /\ Den(result.confidence) # 0
    /\ RLe(Zero, result.confidence)
    /\ RLe(result.confidence, Whole(1))
    /\ RLe(result.confidence, Rat(19, 20))

\* a prediction was returned by a trained ROAS model
C18_Witness ==
  /\ result.op = "predict_roas"
  /\ result.status = "returned"
  /\ result.predicted_roas = Rat(5, 2)
  /\ result.confidence = Rat(19, 20)
  /\ roas_model = Fitted(2, 2)

\* C19: trainings on the shared optimizer are serialized, so every fitted
\* model was fitted on rows scaled by the scaler of its own training, as
\* after any serial order of the calls.
C19_TrainingsSerialized ==
  \A m \in {roas_model, conversion_model} :
    m.state = "fitted" => m.scaled_by = m.trained_on

\* C25: predict_roas scales its features with the scaler fitted by the
\* train_roas_model call that produced the current ROAS model, whatever
\* train_conversion_model calls came later, and likewise predict_conversions
\* with the scaler of the training of the conversion model.  (With no call in
\* progress and a prediction the last call to return, the scaler and models
\* are those the prediction read.)
C25_PredictUsesOwnScaler ==
  /\ (AllIdle /\ result.op = "predict_roas" /\ result.status = "returned") =>
       scaler = roas_model.scaled_by
  /\ (AllIdle /\ result.op = "predict_conversions" /\ result.status = "returned") =>
       scaler = conversion_model.scaled_by

----------------------------------------------------------------------------
(* Properties of generate_recommendations                                  *)

Generated == recommendations # NotGenerated
Has(m) == \E i \in 1..Len(recommendations) : recommendations[i] = m
HasRule(rule) == \E i \in 1..Len(recommendations) : recommendations[i].rule = rule

GivenCtr == Get(campaign_data, "ctr", Zero)
GivenCpc == Get(campaign_data, "cpc", Zero)
GivenRoas == Get(campaign_data, "roas", Zero)
GivenTarget == Get(campaign_data, "target_roas", Whole(3))
HalfTarget == RMul(GivenTarget, Rat(1, 2))
TargetAndHalf == RMul(GivenTarget, Rat(3, 2))

\* C22: the low-CTR message is emitted exactly when ctr < 1.0, the CTR scale
\* message exactly when ctr > 3.0, the high-CPC message exactly when
\* cpc > 5.0 whatever the CTR; a missing ctr or cpc counts as 0.
C22_CtrAndCpcMessages ==
  Generated =>
    /\ Has(LowCtr) <=> RLt(GivenCtr, Whole(1))
    /\ Has(ExcellentCtr) <=> RLt(Whole(3), GivenCtr)
    /\ ~(Has(LowCtr) /\ Has(ExcellentCtr))
    /\ Has(HighCpc) <=> RLt(Whole(5), GivenCpc)

\* ctr is missing and cpc is 6: the low-CTR and the high-CPC message together
C22_Witness ==
  /\ Generated
  /\ "ctr" \notin DOMAIN campaign_data
  /\ Get(campaign_data, "cpc", Zero) = Whole(6)
  /\ Has(LowCtr)
  /\ Has(HighCpc)

\* C23 as stated: at most one ROAS message; major when roas < 0.5 * target,
\* optimize when 0.5 * target <= roas < target, scale when
\* roas > 1.5 * target, none when target <= roas <= 1.5 * target.
C23_RoasMessageByRange ==
  Generated =>
    /\ Has(MajorOptimization) <=> RLt(GivenRoas, HalfTarget)
    /\ Has(Optimize) <=> (RLe(HalfTarget, GivenRoas) /\ RLt(GivenRoas, GivenTarget))
    /\ Has(ScaleBudget) <=> RLt(TargetAndHalf, GivenRoas)
    /\ (RLe(GivenTarget, GivenRoas) /\ RLe(GivenRoas, TargetAndHalf)) => ~HasRule("roas")
    /\ Cardinality({i \in 1..Len(recommendations) : recommendations[i].rule = "roas"}) <= 1

\* C23: at most one ROAS message, that of the first rule that matches in the
\* order major (roas < 0.5 * target), optimize (roas < target), scale
\* (roas > 1.5 * target); none when no rule matches.
C23_RoasMessageFirstMatch ==
  Generated =>
    /\ Has(MajorOptimization) <=> RLt(GivenRoas, HalfTarget)
    /\ Has(Optimize) <=> (~RLt(GivenRoas, HalfTarget) /\ RLt(GivenRoas, GivenTarget))
    /\ Has(ScaleBudget) <=>
         (~RLt(GivenRoas, HalfTarget) /\ ~RLt(GivenRoas, GivenTarget)
            /\ RLt(TargetAndHalf, GivenRoas))
    /\ Cardinality({i \in 1..Len(recommendations) : recommendations[i].rule = "roas"}) <= 1

\* target_roas is missing (3.0) and roas is 1.5, half of it: the optimize message
C23_Witness ==
  /\ Generated
  /\ "target_roas" \notin DOMAIN campaign_data
  /\ GivenRoas = Rat(3, 2)
  /\ Has(Optimize)
  /\ ~Has(MajorOptimization)

\* no CTR, CPC, ROAS or budget rule matches the dict
NoRuleMatches ==
  /\ RLe(Whole(1), GivenCtr) /\ RLe(GivenCtr, Whole(3))
  /\ RLe(GivenCpc, Whole(5))
  /\ ~RLt(GivenRoas, HalfTarget) /\ ~RLt(GivenRoas, GivenTarget)
  /\ ~RLt(TargetAndHalf, GivenRoas)
  /\ recommend_budget(campaign_data, GivenTarget) = Get(campaign_data, "daily_budget", Zero)

\* C24: the list is never empty; the neutral message is emitted exactly when
\* no other rule has produced a message, and it is then the only message.
C24_NeverEmpty ==
  Generated =>
    /\ recommendations # <<>>
    /\ Has(PerformingWell) <=> NoRuleMatches
    /\ Has(PerformingWell) <=>
         ~(HasRule("ctr") \/ HasRule("cpc") \/ HasRule("roas") \/ HasRule("budget"))
    /\ Has(PerformingWell) => recommendations = <<PerformingWell>>

\* ctr 2, cpc 5, roas at the default target, no budget: only the neutral message
C24_Witness ==
  /\ Generated
  /\ GivenCtr = Whole(2)
  /\ GivenCpc = Whole(5)
  /\ GivenRoas = Whole(3)
  /\ "target_roas" \notin DOMAIN campaign_data
  /\ recommendations = <<PerformingWell>>

----------------------------------------------------------------------------
(* Tenant isolation of the analytics routes                                *)

\* the table without the rows of campaigns the user does not own
OwnRows(user) == SelectSeq(store, LAMBDA a : OwnedCampaign(a.campaign_id, user))

\* C26: whatever the four analytics routes return to a caller is computed
\* from the metric records of the caller's own campaigns only: the answer is
\* the one the same request gets on the table with every other user's rows
\* removed, and every record handed back belongs to a campaign of the caller.
C26_TenantIsolation ==
  /\ response # NoResponse =>
       /\ response = AnalyticsResponse(request, QueryAll(OwnRows(request.user), request.user, request))
       /\ \A i \in 1..Len(analytics_data) :
            OwnedCampaign(analytics_data[i].campaign_id, request.user)
  /\ trends # NoResponse =>
       trends \in get_campaign_trends(trend_request.user, trend_request.campaign_id,
                                      trend_request.days, trend_request.now,
                                      OwnRows(trend_request.user))
  /\ overview # NoResponse =>
       overview = get_analytics_overview(overview_request.user, overview_request.days,
                                         overview_request.now, OwnRows(overview_request.user))
  /\ comparison # NoResponse =>
       /\ comparison \in compare_campaigns(compare_request.user, compare_request.campaign_ids,
                                           compare_request.days, compare_request.now,
                                           OwnRows(compare_request.user))
       /\ comparison.status = "returned" =>
            \A i \in 1..Len(comparison.comparison) :
              OwnedCampaign(comparison.comparison[i].campaign_id, compare_request.user)

\* user 1 asks for every campaign while the table holds a row of user 2's
\* campaign 3 and a row of their own: the totals are those of their own row
C26_Witness ==
  /\ response # NoResponse
  /\ request.user = 1
  /\ request.campaign_id = 0
  /\ Len(store) = 2
  /\ store[1].campaign_id = 3
  /\ store[1].date = 2
  /\ store[2].campaign_id = 1
  /\ store[2].date = 2
  /\ store[2].impressions = 1000
  /\ response.summary.total_impressions = 1000

----------------------------------------------------------------------------
(* Properties of the token routes                                          *)

\* C30: a token issued as a refresh token never authenticates a request to a
\* protected route, and a token issued as an access token is never accepted
\* by the refresh route.
C30_TokenTypesNotInterchangeable ==
  /\ (auth_request.route = "protected" /\ auth_response.status = "authenticated") =>
       auth_request.token.type = "access"
  /\ (auth_request.route = "refresh" /\ auth_response.status = "returned") =>
       auth_request.token.type = "refresh"

====
